---- MODULE Spec2Model ----
(***************************************************************************)
(* Model of the real-time notification client of static/js/main.js         *)
(* (class RealTimeNotifications): a reconnecting WebSocket consumer that   *)
(* keeps an unread counter and a bounded dropdown list of notifications.   *)
(*                                                                         *)
(* The browser is the environment: it creates channels, changes their      *)
(* readyState, delivers open / message / error / close events one at a     *)
(* time, fires timers and delivers user clicks.  Every handler runs to     *)
(* completion, so every handler is one action.                             *)
(***************************************************************************)
EXTENDS Integers, Sequences, FiniteSets, TLC

\* ------------------------------------------------------------------ bounds
\* channels the browser creates in one run
MaxSockets == 6
\* channels the browser creates in one run of the full specification
MaxSessions == 2
\* inbound frames delivered in one run of the full specification
MaxMsgs == 3
\* user clicks (on an item or on "Mark all read") in one run
MaxClicks == 1
\* new_notification frames of one run of the burst specification
MaxArrivals == 11
\* connectWebSocket calls made by other page scripts (SpecApi only)
MaxApiCalls == 1
\* notification_read frames delivered during a burst of notifications
MaxReads == 1
\* channels the browser creates in one run of the toast specification
MaxToastSockets == 1
\* inbound frames delivered in one run of the toast specification
MaxToastMsgs == 2

\* ------------------------------------------------------- program constants
\* this.maxReconnectAttempts
maxReconnectAttempts == 5
\* initial this.reconnectDelay, in milliseconds (one time unit of the spec)
BaseDelay == 1000
\* "Limit to 10 notifications in dropdown"
DropdownLimit == 10

VARIABLES
    \* page context
    currentUserId,      \* window.currentUserId is defined and truthy
    hasNav,             \* the page has a .navbar-nav (and no notification bell yet)
    started,            \* DOMContentLoaded has run the constructor
    \* RealTimeNotifications fields
    socket,             \* this.socket: 0 is null, otherwise an index into chan
    isConnected,        \* this.isConnected
    reconnectAttempts,  \* this.reconnectAttempts
    reconnectDelay,     \* this.reconnectDelay
    notificationCount,  \* this.notificationCount (UnreadCount)
    \* browser state
    chan,               \* every WebSocket created so far: its lifecycle state
    timers,             \* pending reconnect timers: their delays
    statusText,         \* textContent of the connection status indicator
    dropdownPresent,    \* .notification-dropdown-menu exists
    dropdown,           \* its children, in document order
    outbox,             \* frames handed to socket.send, in order
    title,              \* document.title: the counts of its leading "(N) " prefixes
    badgeText,          \* textContent of the bell's .notification-badge
    badgeVisible,       \* its style.display is inline-block, not none
    toasts,             \* every toast created: on the page? timer pending?
    \* history (not read by any handler)
    series,             \* delays scheduled since construction or the last open
    opens,              \* number of open events handled
    arrivals,           \* notifications of the new_notification frames, in order
    lastCount,          \* count of the last notification_count frame (0 if none)
    newSince,           \* new_notification frames since then
    readsSince,         \* notification_read frames since then
    nMsgs,              \* inbound frames delivered
    nClicks,            \* user clicks delivered
    nApi,               \* external connectWebSocket calls
    lastEvent,          \* name of the handler that ran last
    lastId,             \* the notification id that handler was given, "" if none
    threw               \* that handler ended with an uncaught exception

vars == <<currentUserId, hasNav, started, socket, isConnected, reconnectAttempts,
          reconnectDelay, notificationCount, chan, timers, statusText,
          dropdownPresent, dropdown, outbox, series, opens,
          arrivals, lastCount, newSince, readsSince, nMsgs, nClicks, nApi,
          lastEvent, title, badgeText, badgeVisible, lastId, threw, toasts>>

pageVars == <<currentUserId, hasNav>>
connVars == <<socket, isConnected, reconnectAttempts, reconnectDelay, chan,
              timers, statusText, series, opens>>
noteVars == <<notificationCount, dropdown, arrivals, lastCount, newSince,
              readsSince, title, badgeText, badgeVisible, toasts>>

\* ----------------------------------------------------------------- helpers
RECURSIVE Pow2(_)
\* Math.pow(2, n) for the n >= 0 the program passes
Pow2(n) == IF n <= 0 THEN 1 ELSE 2 * Pow2(n - 1)

\* WebSocket.readyState of channel s.  FAILED is a channel whose error event
\* has been dispatched and whose close event has not: it already reads CLOSED.
readyState(s) ==
    IF chan[s] = "FAILED" THEN "CLOSED" ELSE chan[s]

\* channels that are connecting or open
LiveSockets == {s \in 1..Len(chan) : readyState(s) \in {"CONNECTING", "OPEN"}}

\* ------------------------------------------------------------ input values
\* a data.notification that is missing from the frame (undefined)
Undefined == [id |-> "undefined", type |-> "undefined", created_at |-> 0]

\* Notification payloads the server pushes.  An id is written as its JSON
\* text: 7 is the number 7 and 'n1' is the string n1.  The one with the later
\* created_at is not the one that has to arrive later.
Notifications ==
    { [id |-> "7", type |-> "system", created_at |-> 2],
      [id |-> "'n1'", type |-> "message", created_at |-> 1] }

\* ids a notification_read frame may carry: the two above and one that was
\* never pushed to this client
ReadIds == {"7", "'n1'", "99"}

\* counts a notification_count frame may carry
CountValues == {0, 3, 100}

\* String(id), as template literals and dataset assignment convert an id
IdString(id) ==
    IF id = "'n1'" THEN "n1" ELSE id

\* inbound frames: event.data of a message event
Frames ==
    {[json |-> FALSE, type |-> "", count |-> 0, notification |-> Undefined,
      notification_id |-> ""]}
    \cup {[json |-> TRUE, type |-> "notification_count", count |-> c,
           notification |-> Undefined, notification_id |-> ""] : c \in CountValues}
    \cup {[json |-> TRUE, type |-> "new_notification", count |-> 0,
           notification |-> n, notification_id |-> ""] :
              n \in Notifications \cup {Undefined}}
    \cup {[json |-> TRUE, type |-> "notification_read", count |-> 0,
           notification |-> Undefined, notification_id |-> i] : i \in ReadIds}
    \cup {[json |-> TRUE, type |-> t, count |-> 0, notification |-> Undefined,
           notification_id |-> ""] : t \in {"", "pong"}}

\* the dropdown's initial child, created by createNotificationBell
Placeholder ==
    [cls |-> "text-center", notificationId |-> "", unread |-> FALSE,
     notification |-> Undefined]

\* dropdown.querySelectorAll('.notification-item'): the items in document order
Items(children) == SelectSeq(children, LAMBDA e : e.cls = "notification-item")

\* RecentList: the notifications of the dropdown's items, first child first
RecentList == [i \in 1..Len(Items(dropdown)) |-> Items(dropdown)[i].notification]

\* ------------------------------------------------------------------- Init
\* lines 399-406: the fields the constructor sets, before it calls init()
Init ==
    /\ currentUserId \in BOOLEAN
    /\ hasNav \in BOOLEAN
    /\ started = FALSE
    /\ socket = 0
    /\ notificationCount = 0
    /\ isConnected = FALSE
    /\ reconnectAttempts = 0
    /\ reconnectDelay = BaseDelay
    /\ chan = <<>>
    /\ timers = <<>>
    /\ statusText = ""
    /\ dropdownPresent = FALSE
    /\ dropdown = <<>>
    /\ outbox = <<>>
    /\ series = <<>>
    /\ opens = 0
    /\ arrivals = <<>>
    /\ lastCount = 0
    /\ newSince = 0
    /\ readsSince = 0
    /\ nMsgs = 0
    /\ nClicks = 0
    /\ nApi = 0
    /\ lastEvent = "none"
    /\ title = <<>>
    /\ badgeText = ""
    /\ badgeVisible = FALSE
    /\ toasts = <<>>
    /\ lastId = ""
    /\ threw = FALSE

\* the handler name has run with the notification id it was given and has
\* ended normally or, with raised, by an uncaught exception
Ran(name, id, raised) ==
    /\ lastEvent' = name
    /\ lastId' = id
    /\ threw' = raised

\* ------------------------------------------------------------- connection
\* updateConnectionStatus(connected)
updateConnectionStatus(connected) ==
    statusText' = IF connected THEN "Connected" ELSE "Disconnected"

\* scheduleReconnect that sets two timers for one attempt
scheduleReconnect_two_timers(pending) ==
    IF reconnectAttempts < maxReconnectAttempts
    THEN LET attempts == reconnectAttempts + 1
             delay == reconnectDelay * Pow2(attempts - 1)
         IN /\ reconnectAttempts' = attempts
            /\ timers' = Append(Append(pending, delay), delay)
            /\ series' = Append(series, delay)
    ELSE /\ timers' = pending
         /\ UNCHANGED <<reconnectAttempts, series>>

\* scheduleReconnect with the exponent one too large
scheduleReconnect_exponent(pending) ==
    IF reconnectAttempts < maxReconnectAttempts
    THEN LET attempts == reconnectAttempts + 1
             delay == reconnectDelay * Pow2(attempts)
         IN /\ reconnectAttempts' = attempts
            /\ timers' = Append(pending, delay)
            /\ series' = Append(series, delay)
    ELSE /\ timers' = pending
         /\ UNCHANGED <<reconnectAttempts, series>>

\* scheduleReconnect that compares with <= and so retries once more
scheduleReconnect_le(pending) ==
    IF reconnectAttempts <= maxReconnectAttempts
    THEN LET attempts == reconnectAttempts + 1
             delay == reconnectDelay * Pow2(attempts - 1)
         IN /\ reconnectAttempts' = attempts
            /\ timers' = Append(pending, delay)
            /\ series' = Append(series, delay)
    ELSE /\ timers' = pending
         /\ UNCHANGED <<reconnectAttempts, series>>

\* scheduleReconnect(), run while the timers in pending are waiting: the
\* setTimeout adds one with the computed delay
scheduleReconnect(pending) ==
    IF reconnectAttempts < maxReconnectAttempts
    THEN LET attempts == reconnectAttempts + 1
             delay == reconnectDelay * Pow2(attempts - 1)
         IN /\ reconnectAttempts' = attempts
            /\ timers' = Append(pending, delay)
            /\ series' = Append(series, delay)
    ELSE /\ timers' = pending
         /\ UNCHANGED <<reconnectAttempts, series>>

\* connectWebSocket(), run while the timers in pending are waiting;
\* throws: new WebSocket(wsUrl) raises and the catch block runs
connectWebSocket(throws, pending) ==
    IF socket # 0 /\ readyState(socket) = "OPEN"
    THEN /\ timers' = pending
         /\ UNCHANGED <<socket, chan, reconnectAttempts, series>>
    ELSE IF throws
         THEN /\ scheduleReconnect(pending)
              /\ UNCHANGED <<socket, chan>>
         ELSE /\ chan' = Append(chan, "CONNECTING")
              /\ socket' = Len(chan) + 1
              /\ timers' = pending
              /\ UNCHANGED <<reconnectAttempts, series>>

\* setupUI(): createNotificationBell adds the bell when the page has a
\* navbar: its badge, hidden and reading 0, and its dropdown menu, which
\* holds the "No notifications yet" placeholder
setupUI ==
    IF hasNav
    THEN /\ dropdownPresent' = TRUE
         /\ dropdown' = <<Placeholder>>
         /\ badgeText' = "0"
         /\ badgeVisible' = FALSE
    ELSE UNCHANGED <<dropdownPresent, dropdown, badgeText, badgeVisible>>

\* the page-load handler with an init() that does not test currentUserId
DOMContentLoaded_nocheck(throws) ==
    /\ ~started
    /\ started' = TRUE
    /\ Ran("init", "", FALSE)
    /\ connectWebSocket(throws, timers)
    /\ setupUI
    /\ UNCHANGED <<pageVars, isConnected, reconnectDelay, notificationCount,
                   title, statusText, outbox, opens, arrivals, toasts, lastCount,
                   newSince, readsSince, nMsgs, nClicks, nApi>>

\* DOMContentLoaded: new RealTimeNotifications(), whose constructor runs init()
DOMContentLoaded(throws) ==
    /\ ~started
    /\ started' = TRUE
    /\ Ran("init", "", FALSE)
    /\ IF currentUserId
       THEN /\ connectWebSocket(throws, timers)
            /\ setupUI
       ELSE UNCHANGED <<socket, chan, reconnectAttempts, timers, series,
                        dropdownPresent, dropdown, badgeText, badgeVisible>>
    /\ UNCHANGED <<pageVars, isConnected, reconnectDelay, notificationCount,
                   title, statusText, outbox, opens, arrivals, toasts, lastCount,
                   newSince, readsSince, nMsgs, nClicks, nApi>>

\* the sequence q without its i-th element
RemoveAt(q, i) ==
    [j \in 1..(Len(q) - 1) |-> IF j < i THEN q[j] ELSE q[j + 1]]

\* a reconnect timer whose callback does not call connectWebSocket
ReconnectTimer_lost(i, throws) ==
    /\ i \in 1..Len(timers)
    /\ Ran("timer", "", FALSE)
    /\ timers' = RemoveAt(timers, i)
    /\ UNCHANGED <<pageVars, started, socket, chan, reconnectAttempts, series,
                   isConnected, reconnectDelay,
                   notificationCount, title, badgeText, badgeVisible,
                   statusText, dropdownPresent, dropdown,
                   outbox, opens, arrivals, toasts, lastCount,
                   newSince, readsSince, nMsgs, nClicks, nApi>>

\* the reconnect timer at position i fires: its callback calls connectWebSocket
ReconnectTimer(i, throws) ==
    /\ i \in 1..Len(timers)
    /\ Ran("timer", "", FALSE)
    /\ connectWebSocket(throws, RemoveAt(timers, i))
    /\ UNCHANGED <<pageVars, started, isConnected, reconnectDelay,
                   notificationCount, title, badgeText, badgeVisible, statusText, dropdownPresent, dropdown,
                   outbox, opens, arrivals, toasts, lastCount,
                   newSince, readsSince, nMsgs, nClicks, nApi>>

\* another page script calls window.notificationSystem.connectWebSocket()
ApiConnect(throws) ==
    /\ started
    /\ currentUserId
    /\ nApi' = nApi + 1
    /\ Ran("api", "", FALSE)
    /\ connectWebSocket(throws, timers)
    /\ UNCHANGED <<pageVars, started, isConnected, reconnectDelay,
                   notificationCount, title, badgeText, badgeVisible, statusText, dropdownPresent, dropdown,
                   outbox, opens, arrivals, toasts, lastCount,
                   newSince, readsSince, nMsgs, nClicks>>

\* onopen that doubles the base delay instead of resetting it
onopen_doubles_base(s) ==
    /\ s \in 1..Len(chan)
    /\ chan[s] = "CONNECTING"
    /\ chan' = [chan EXCEPT ![s] = "OPEN"]
    /\ isConnected' = TRUE
    /\ reconnectAttempts' = 0
    /\ reconnectDelay' = reconnectDelay * 2
    /\ updateConnectionStatus(TRUE)
    /\ opens' = opens + 1
    /\ series' = <<>>
    /\ Ran("open", "", FALSE)
    /\ UNCHANGED <<pageVars, started, socket, notificationCount, title,
                   badgeText, badgeVisible, timers, dropdownPresent,
                   dropdown, outbox, arrivals, toasts, lastCount,
                   newSince, readsSince, nMsgs, nClicks, nApi>>

\* onopen that leaves the attempt counter as it is
onopen_keeps_attempts(s) ==
    /\ s \in 1..Len(chan)
    /\ chan[s] = "CONNECTING"
    /\ chan' = [chan EXCEPT ![s] = "OPEN"]
    /\ isConnected' = TRUE
    /\ reconnectDelay' = BaseDelay
    /\ updateConnectionStatus(TRUE)
    /\ opens' = opens + 1
    /\ series' = <<>>
    /\ Ran("open", "", FALSE)
    /\ UNCHANGED <<pageVars, started, socket, reconnectAttempts,
                   notificationCount, title, badgeText, badgeVisible, timers, dropdownPresent, dropdown,
                   outbox, arrivals, toasts, lastCount, newSince, readsSince, nMsgs,
                   nClicks, nApi>>

\* socket.onopen; the channel s becomes OPEN in the task that fires the event
onopen(s) ==
    /\ s \in 1..Len(chan)
    /\ chan[s] = "CONNECTING"
    /\ chan' = [chan EXCEPT ![s] = "OPEN"]
    /\ isConnected' = TRUE
    /\ reconnectAttempts' = 0
    /\ reconnectDelay' = BaseDelay
    /\ updateConnectionStatus(TRUE)
    /\ opens' = opens + 1
    /\ series' = <<>>
    /\ Ran("open", "", FALSE)
    /\ UNCHANGED <<pageVars, started, socket, notificationCount, title, badgeText, badgeVisible, timers,
                   dropdownPresent, dropdown, outbox, arrivals, toasts, lastCount,
                   newSince, readsSince, nMsgs, nClicks, nApi>>

\* the closing handshake of an open channel starts: readyState becomes
\* CLOSING and no event is fired
StartClosing(s) ==
    /\ s \in 1..Len(chan)
    /\ chan[s] = "OPEN"
    /\ chan' = [chan EXCEPT ![s] = "CLOSING"]
    /\ Ran("closing", "", FALSE)
    /\ UNCHANGED <<pageVars, started, socket, isConnected, reconnectAttempts,
                   reconnectDelay, notificationCount, title, badgeText, badgeVisible, timers, statusText,
                   dropdownPresent, dropdown, outbox, series, opens, arrivals, toasts, lastCount, newSince, readsSince,
                   nMsgs, nClicks, nApi>>

\* onerror that schedules a reconnect as onclose does
onerror_reconnects(s) ==
    /\ s \in 1..Len(chan)
    /\ chan[s] \in {"CONNECTING", "OPEN", "CLOSING"}
    /\ chan' = [chan EXCEPT ![s] = "FAILED"]
    /\ isConnected' = FALSE
    /\ updateConnectionStatus(FALSE)
    /\ scheduleReconnect(timers)
    /\ Ran("error", "", FALSE)
    /\ UNCHANGED <<pageVars, started, socket, reconnectDelay,
                   notificationCount, title, badgeText, badgeVisible, dropdownPresent, dropdown, outbox, opens, arrivals, toasts, lastCount, newSince, readsSince,
                   nMsgs, nClicks, nApi>>

\* socket.onerror; the channel s has failed, its close event is still to come
onerror(s) ==
    /\ s \in 1..Len(chan)
    /\ chan[s] \in {"CONNECTING", "OPEN", "CLOSING"}
    /\ chan' = [chan EXCEPT ![s] = "FAILED"]
    /\ isConnected' = FALSE
    /\ updateConnectionStatus(FALSE)
    /\ Ran("error", "", FALSE)
    /\ UNCHANGED <<pageVars, started, socket, reconnectAttempts,
                   reconnectDelay, notificationCount, title, badgeText, badgeVisible, timers, dropdownPresent,
                   dropdown, outbox, series, opens, arrivals, toasts,
                   lastCount, newSince, readsSince, nMsgs, nClicks, nApi>>

\* onclose that leaves the connection flag as it is
onclose_keeps_flag(s) ==
    /\ s \in 1..Len(chan)
    /\ chan[s] \in {"CONNECTING", "OPEN", "CLOSING", "FAILED"}
    /\ chan' = [chan EXCEPT ![s] = "CLOSED"]
    /\ updateConnectionStatus(FALSE)
    /\ scheduleReconnect(timers)
    /\ Ran("close", "", FALSE)
    /\ UNCHANGED <<pageVars, started, socket, isConnected, reconnectDelay,
                   notificationCount, title, badgeText, badgeVisible,
                   dropdownPresent, dropdown, outbox, opens, arrivals,
                   toasts, lastCount, newSince, readsSince, nMsgs, nClicks,
                   nApi>>

\* onclose that does not schedule a reconnect
onclose_no_reconnect(s) ==
    /\ s \in 1..Len(chan)
    /\ chan[s] \in {"CONNECTING", "OPEN", "CLOSING", "FAILED"}
    /\ chan' = [chan EXCEPT ![s] = "CLOSED"]
    /\ isConnected' = FALSE
    /\ updateConnectionStatus(FALSE)
    /\ Ran("close", "", FALSE)
    /\ UNCHANGED <<pageVars, started, socket, reconnectAttempts,
                   reconnectDelay, notificationCount, title, badgeText, badgeVisible, timers, dropdownPresent,
                   dropdown, outbox, series, opens, arrivals, toasts,
                   lastCount, newSince, readsSince, nMsgs, nClicks, nApi>>

\* socket.onclose; the channel s is CLOSED, with or without an error before
onclose(s) ==
    /\ s \in 1..Len(chan)
    /\ chan[s] \in {"CONNECTING", "OPEN", "CLOSING", "FAILED"}
    /\ chan' = [chan EXCEPT ![s] = "CLOSED"]
    /\ isConnected' = FALSE
    /\ updateConnectionStatus(FALSE)
    /\ scheduleReconnect(timers)
    /\ Ran("close", "", FALSE)
    /\ UNCHANGED <<pageVars, started, socket, reconnectDelay,
                   notificationCount, title, badgeText, badgeVisible, dropdownPresent, dropdown, outbox, opens, arrivals, toasts, lastCount, newSince, readsSince,
                   nMsgs, nClicks, nApi>>

\* ---------------------------------------------------------------- messages
\* updateNotificationCount that skips a falsy count
updateNotificationCount_falsy(count) ==
    IF count = 0 THEN notificationCount ELSE count

\* updateNotificationCount(count): the value this.notificationCount takes
updateNotificationCount(count) == count

\* title.replace(/^\(\d+\)\s/, ''): the title without its first "(N) "
\* prefix.  The page's own title is taken not to start with one.
StripPrefix(t) ==
    IF t # <<>> THEN Tail(t) ELSE t

\* the badge and title update with a title that is not stripped of its old
\* prefix before the new one is put in front
updateBadgeAndTitle_nostrip(count) ==
    /\ IF dropdownPresent
       THEN IF count > 0
            THEN /\ badgeText' = IF count > 99 THEN "99+" ELSE ToString(count)
                 /\ badgeVisible' = TRUE
            ELSE /\ badgeVisible' = FALSE
                 /\ UNCHANGED badgeText
       ELSE UNCHANGED <<badgeText, badgeVisible>>
    /\ title' = IF count > 0
                THEN <<count>> \o title
                ELSE StripPrefix(title)

\* updateNotificationCount(count), lines 509-527: the badge of the bell, if
\* the page has one, and the page title
updateBadgeAndTitle(count) ==
    /\ IF dropdownPresent
       THEN IF count > 0
            THEN /\ badgeText' = IF count > 99 THEN "99+" ELSE ToString(count)
                 /\ badgeVisible' = TRUE
            ELSE /\ badgeVisible' = FALSE
                 /\ UNCHANGED badgeText
       ELSE UNCHANGED <<badgeText, badgeVisible>>
    /\ title' = IF count > 0
                THEN <<count>> \o StripPrefix(title)
                ELSE StripPrefix(title)

\* index of the last .notification-item among children, 0 if there is none
RECURSIVE LastItemIndex(_, _)
LastItemIndex(children, i) ==
    IF i = 0 THEN 0
    ELSE IF children[i].cls = "notification-item" THEN i
    ELSE LastItemIndex(children, i - 1)

\* addToNotificationDropdown that does not return when the menu is missing
addToNotificationDropdown_nomount(children, notification) ==
    LET notificationElement ==
            [cls |-> "notification-item",
             notificationId |-> IdString(notification.id),
             unread |-> TRUE,
             notification |-> notification]
        inserted == <<notificationElement>> \o children
    IN IF Len(Items(inserted)) > DropdownLimit
       THEN RemoveAt(inserted, LastItemIndex(inserted, Len(inserted)))
       ELSE inserted

\* addToNotificationDropdown without the limit
addToNotificationDropdown_unlimited(children, notification) ==
    IF ~dropdownPresent THEN children
    ELSE <<[cls |-> "notification-item",
            notificationId |-> IdString(notification.id),
            unread |-> TRUE,
            notification |-> notification]>> \o children

\* addToNotificationDropdown that removes items[0] on overflow
addToNotificationDropdown_first(children, notification) ==
    IF ~dropdownPresent THEN children
    ELSE LET notificationElement ==
                 [cls |-> "notification-item",
                  notificationId |-> IdString(notification.id),
                  unread |-> TRUE,
                  notification |-> notification]
             inserted == <<notificationElement>> \o children
         IN IF Len(Items(inserted)) > DropdownLimit
            THEN RemoveAt(inserted, 1)
            ELSE inserted

\* addToNotificationDropdown(notification): the dropdown's children afterwards
addToNotificationDropdown(children, notification) ==
    IF ~dropdownPresent THEN children
    ELSE LET notificationElement ==
                 [cls |-> "notification-item",
                  notificationId |-> IdString(notification.id),
                  unread |-> TRUE,
                  notification |-> notification]
             inserted == <<notificationElement>> \o children
         IN IF Len(Items(inserted)) > DropdownLimit
            THEN RemoveAt(inserted, LastItemIndex(inserted, Len(inserted)))
            ELSE inserted

\* index of the first child whose data-notification-id is idText, 0 if none
RECURSIVE QuerySelector(_, _, _)
QuerySelector(children, idText, i) ==
    IF i > Len(children) THEN 0
    ELSE IF children[i].cls = "notification-item"
            /\ children[i].notificationId = idText THEN i
    ELSE QuerySelector(children, idText, i + 1)

\* removeFromNotificationDropdown that leaves the element marked unread
removeFromNotificationDropdown_noop(children, notificationId) ==
    children

\* removeFromNotificationDropdown that takes the element out of the menu
removeFromNotificationDropdown_removes(children, notificationId) ==
    LET item == QuerySelector(children, IdString(notificationId), 1)
    IN IF item # 0
       THEN RemoveAt(children, item)
       ELSE children

\* removeFromNotificationDropdown(notificationId): the children afterwards
removeFromNotificationDropdown(children, notificationId) ==
    LET item == QuerySelector(children, IdString(notificationId), 1)
    IN IF item # 0
       THEN [children EXCEPT ![item].unread = FALSE]
       ELSE children

\* showNotificationToast(notification): the toasts afterwards.  The new toast
\* is on the page and its 5000 ms timer is pending.
showNotificationToast(all, notification) ==
    Append(all, [shown |-> TRUE, timer |-> TRUE])

\* handleNewNotification that counts the notification twice
handleNewNotification_twice(notification) ==
    /\ notificationCount' = updateNotificationCount(notificationCount + 2)
    /\ updateBadgeAndTitle(notificationCount + 2)
    /\ IF notification = Undefined
       THEN UNCHANGED <<dropdown, arrivals, toasts>>
       ELSE /\ toasts' = showNotificationToast(toasts, notification)
            /\ dropdown' = addToNotificationDropdown(dropdown, notification)
            /\ arrivals' = Append(arrivals, notification)

\* handleNewNotification(notification); showNotificationToast raises a
\* TypeError on a missing notification, which ends the handler before
\* addToNotificationDropdown
handleNewNotification(notification) ==
    /\ notificationCount' = updateNotificationCount(notificationCount + 1)
    /\ updateBadgeAndTitle(notificationCount + 1)
    /\ IF notification = Undefined
       THEN UNCHANGED <<dropdown, arrivals, toasts>>
       ELSE /\ toasts' = showNotificationToast(toasts, notification)
            /\ dropdown' = addToNotificationDropdown(dropdown, notification)
            /\ arrivals' = Append(arrivals, notification)

\* handleNotificationRead that decrements only when the dropdown lists the id
handleNotificationRead_listed(notificationId) ==
    /\ IF notificationCount > 0
          /\ QuerySelector(dropdown, IdString(notificationId), 1) # 0
       THEN /\ notificationCount' =
                  updateNotificationCount(notificationCount - 1)
            /\ updateBadgeAndTitle(notificationCount - 1)
       ELSE UNCHANGED <<notificationCount, title, badgeText, badgeVisible>>
    /\ dropdown' = removeFromNotificationDropdown(dropdown, notificationId)
    /\ UNCHANGED <<arrivals, toasts>>

\* handleNotificationRead that decrements without testing the count
handleNotificationRead_nofloor(notificationId) ==
    /\ notificationCount' = updateNotificationCount(notificationCount - 1)
    /\ updateBadgeAndTitle(notificationCount - 1)
    /\ dropdown' = removeFromNotificationDropdown(dropdown, notificationId)
    /\ UNCHANGED <<arrivals, toasts>>

\* handleNotificationRead(notificationId)
handleNotificationRead(notificationId) ==
    /\ IF notificationCount > 0
       THEN /\ notificationCount' =
                  updateNotificationCount(notificationCount - 1)
            /\ updateBadgeAndTitle(notificationCount - 1)
       ELSE UNCHANGED <<notificationCount, title, badgeText, badgeVisible>>
    /\ dropdown' = removeFromNotificationDropdown(dropdown, notificationId)
    /\ UNCHANGED <<arrivals, toasts>>

\* handleMessage whose switch has a default branch that clears the count
handleMessage_default(data) ==
    IF data.type = "notification_count"
    THEN /\ notificationCount' = updateNotificationCount(data.count)
         /\ updateBadgeAndTitle(data.count)
         /\ lastCount' = data.count
         /\ newSince' = 0
         /\ readsSince' = 0
         /\ UNCHANGED <<dropdown, arrivals, toasts>>
    ELSE IF data.type = "new_notification"
    THEN /\ handleNewNotification(data.notification)
         /\ newSince' = newSince + 1
         /\ UNCHANGED <<lastCount, readsSince>>
    ELSE IF data.type = "notification_read"
    THEN /\ handleNotificationRead(data.notification_id)
         /\ readsSince' = readsSince + 1
         /\ UNCHANGED <<lastCount, newSince>>
    ELSE /\ notificationCount' = updateNotificationCount(0)
         /\ updateBadgeAndTitle(0)
         /\ UNCHANGED <<dropdown, arrivals, toasts, lastCount, newSince, readsSince>>

\* handleMessage(data)
handleMessage(data) ==
    IF data.type = "notification_count"
    THEN /\ notificationCount' = updateNotificationCount(data.count)
         /\ updateBadgeAndTitle(data.count)
         /\ lastCount' = data.count
         /\ newSince' = 0
         /\ readsSince' = 0
         /\ UNCHANGED <<dropdown, arrivals, toasts>>
    ELSE IF data.type = "new_notification"
    THEN /\ handleNewNotification(data.notification)
         /\ newSince' = newSince + 1
         /\ UNCHANGED <<lastCount, readsSince>>
    ELSE IF data.type = "notification_read"
    THEN /\ handleNotificationRead(data.notification_id)
         /\ readsSince' = readsSince + 1
         /\ UNCHANGED <<lastCount, newSince>>
    ELSE UNCHANGED noteVars

\* onmessage that takes a frame that is not JSON for a count of 0
onmessage_bad_frame_resets(s, frame) ==
    /\ s \in 1..Len(chan)
    /\ chan[s] = "OPEN"
    /\ frame \in Frames
    /\ nMsgs' = nMsgs + 1
    /\ Ran(IF frame.json THEN frame.type ELSE "not_json",
           frame.notification_id,
           ~frame.json
              \/ (frame.type = "new_notification"
                  /\ frame.notification = Undefined))
    /\ IF frame.json
       THEN handleMessage(frame)
       ELSE handleMessage([frame EXCEPT !.type = "notification_count"])
    /\ UNCHANGED <<pageVars, started, connVars, dropdownPresent, outbox,
                   nClicks, nApi>>

\* socket.onmessage; a message event is fired on an OPEN channel only.
\* JSON.parse raises on a frame that is not JSON, which ends the handler.
onmessage(s, frame) ==
    /\ s \in 1..Len(chan)
    /\ chan[s] = "OPEN"
    /\ frame \in Frames
    /\ nMsgs' = nMsgs + 1
    /\ Ran(IF frame.json THEN frame.type ELSE "not_json",
           frame.notification_id,
           ~frame.json
              \/ (frame.type = "new_notification"
                  /\ frame.notification = Undefined))
    /\ IF frame.json
       THEN handleMessage(frame)
       ELSE UNCHANGED noteVars
    /\ UNCHANGED <<pageVars, started, connVars, dropdownPresent, outbox,
                   nClicks, nApi>>

\* ------------------------------------------------------------ user actions
\* parseInt(text) as JSON.stringify writes it: NaN is written null
ParseInt(text) ==
    IF text \in {"7", "99"} THEN text ELSE "null"

\* markAsRead that tests the isConnected flag instead of readyState
markAsRead_flag(sent, notificationId) ==
    IF isConnected
    THEN Append(sent, [socket |-> socket, type |-> "mark_read",
                       notification_id |-> notificationId])
    ELSE sent

\* markAsRead(notificationId): the frames sent so far, given those in sent
markAsRead(sent, notificationId) ==
    IF socket # 0 /\ readyState(socket) = "OPEN"
    THEN Append(sent, [socket |-> socket, type |-> "mark_read",
                       notification_id |-> notificationId])
    ELSE sent

\* markAllAsRead() over the items from position i on
RECURSIVE markAllFrom(_, _, _)
markAllFrom(sent, items, i) ==
    IF i > Len(items) THEN sent
    ELSE IF items[i].unread
         THEN markAllFrom(markAsRead(sent, ParseInt(items[i].notificationId)),
                          items, i + 1)
         ELSE markAllFrom(sent, items, i + 1)

\* markAllAsRead(), the "Mark all read" button of the bell
markAllAsRead ==
    /\ started
    /\ dropdownPresent
    /\ nClicks' = nClicks + 1
    /\ Ran("mark_all", "", FALSE)
    /\ outbox' = markAllFrom(outbox, Items(dropdown), 1)
    /\ UNCHANGED <<pageVars, started, connVars, noteVars, dropdownPresent,
                   nMsgs, nApi>>

\* a click handler that also lowers the unread count at once
ItemClick_optimistic(k) ==
    /\ k \in 1..Len(dropdown)
    /\ dropdown[k].cls = "notification-item"
    /\ nClicks' = nClicks + 1
    /\ Ran("item_click", dropdown[k].notification.id, FALSE)
    /\ outbox' = markAsRead(outbox, dropdown[k].notification.id)
    /\ IF dropdown[k].unread /\ notificationCount > 0
       THEN /\ notificationCount' =
                  updateNotificationCount(notificationCount - 1)
            /\ updateBadgeAndTitle(notificationCount - 1)
       ELSE UNCHANGED <<notificationCount, title, badgeText, badgeVisible>>
    /\ UNCHANGED <<pageVars, started, connVars, dropdown, arrivals, toasts,
                   lastCount, newSince, readsSince, dropdownPresent,
                   nMsgs, nApi>>

\* click on the k-th child of the dropdown, a notification item: markAsRead
\* and handleNotificationClick, which only logs for the types pushed here
ItemClick(k) ==
    /\ k \in 1..Len(dropdown)
    /\ dropdown[k].cls = "notification-item"
    /\ nClicks' = nClicks + 1
    /\ Ran("item_click", dropdown[k].notification.id, FALSE)
    /\ outbox' = markAsRead(outbox, dropdown[k].notification.id)
    /\ UNCHANGED <<pageVars, started, connVars, noteVars, dropdownPresent,
                   nMsgs, nApi>>

\* a toast timer whose callback leaves the toast on the page
ToastTimer_noremove(i) ==
    /\ i \in 1..Len(toasts)
    /\ toasts[i].timer
    /\ toasts' = [toasts EXCEPT ![i].timer = FALSE]
    /\ Ran("toast_timer", "", FALSE)
    /\ UNCHANGED <<pageVars, started, connVars, notificationCount, dropdown,
                   arrivals, lastCount, newSince, readsSince, title,
                   badgeText, badgeVisible, dropdownPresent, outbox,
                   nMsgs, nClicks, nApi>>

\* a toast timer that also resets the reconnect attempt counter
ToastTimer_resets(i) ==
    /\ i \in 1..Len(toasts)
    /\ toasts[i].timer
    /\ toasts' = [toasts EXCEPT ![i] = [shown |-> FALSE, timer |-> FALSE]]
    /\ reconnectAttempts' = 0
    /\ Ran("toast_timer", "", FALSE)
    /\ UNCHANGED <<pageVars, started, socket, isConnected, reconnectDelay,
                   chan, timers, statusText, series, opens,
                   notificationCount, dropdown,
                   arrivals, lastCount, newSince, readsSince, title,
                   badgeText, badgeVisible, dropdownPresent, outbox,
                   nMsgs, nClicks, nApi>>

\* the 5000 ms timer of the i-th toast fires: the toast is removed if it is
\* still on the page
ToastTimer(i) ==
    /\ i \in 1..Len(toasts)
    /\ toasts[i].timer
    /\ toasts' = [toasts EXCEPT ![i] = [shown |-> FALSE, timer |-> FALSE]]
    /\ Ran("toast_timer", "", FALSE)
    /\ UNCHANGED <<pageVars, started, connVars, notificationCount, dropdown,
                   arrivals, lastCount, newSince, readsSince, title,
                   badgeText, badgeVisible, dropdownPresent, outbox,
                   nMsgs, nClicks, nApi>>

\* click on the i-th toast, on its close button or anywhere else:
\* handleNotificationClick, which only logs for the types pushed here, and
\* toast.remove()
ToastClick(i) ==
    /\ i \in 1..Len(toasts)
    /\ toasts[i].shown
    /\ nClicks' = nClicks + 1
    /\ toasts' = [toasts EXCEPT ![i].shown = FALSE]
    /\ Ran("toast_click", "", FALSE)
    /\ UNCHANGED <<pageVars, started, connVars, notificationCount, dropdown,
                   arrivals, lastCount, newSince, readsSince, title,
                   badgeText, badgeVisible, dropdownPresent, outbox,
                   nMsgs, nApi>>

\* ----------------------------------------------------------- specifications
\* the channel lifecycle while the browser has created fewer than limit
\* channels: page load, reconnect timers and channel events
Lifecycle(limit) ==
    \/ \E throws \in BOOLEAN :
          /\ throws \/ Len(chan) < limit
          /\ DOMContentLoaded(throws)
    \/ \E i \in 1..Len(timers), throws \in BOOLEAN :
          /\ throws \/ Len(chan) < limit
          /\ ReconnectTimer(i, throws)
    \/ \E s \in 1..Len(chan) : onopen(s)
    \/ \E s \in 1..Len(chan) : StartClosing(s)
    \/ \E s \in 1..Len(chan) : onerror(s)
    \/ \E s \in 1..Len(chan) : onclose(s)

NextConn == Lifecycle(MaxSockets)

\* inbound frames and user clicks
NextNote ==
    \/ \E s \in 1..Len(chan), frame \in Frames :
          /\ nMsgs < MaxMsgs
          /\ onmessage(s, frame)
    \/ nClicks < MaxClicks /\ markAllAsRead
    \/ \E k \in 1..Len(dropdown) : nClicks < MaxClicks /\ ItemClick(k)

\* the whole client: every event the browser can deliver, in any order
Next == Lifecycle(MaxSessions) \/ NextNote

Spec == Init /\ [][Next]_vars

\* the channel lifecycle alone
SpecConn == Init /\ [][NextConn]_vars

\* the lifecycle with calls of connectWebSocket from other scripts of the page
NextApi ==
    \/ Lifecycle(MaxSessions)
    \/ \E throws \in BOOLEAN :
          /\ nApi < MaxApiCalls
          /\ throws \/ Len(chan) < MaxSessions
          /\ ApiConnect(throws)

SpecApi == Init /\ [][NextApi]_vars

\* one session in which the server pushes a burst of notifications
NextList ==
    \/ DOMContentLoaded(FALSE)
    \/ \E s \in 1..Len(chan) : onopen(s)
    \/ \E s \in 1..Len(chan), frame \in Frames :
          /\ frame.type = "new_notification"
          /\ frame.notification # Undefined
          /\ Len(arrivals) < MaxArrivals
          /\ onmessage(s, frame)

SpecList == Init /\ [][NextList]_vars

\* ------------------------------------------------------------------ claims
\* channels whose close event is still to come and that have not failed
ActiveSockets ==
    {s \in 1..Len(chan) : chan[s] \in {"CONNECTING", "OPEN", "CLOSING"}}

\* p is an initial part of q
IsPrefix(p, q) ==
    /\ Len(p) <= Len(q)
    /\ \A i \in 1..Len(p) : p[i] = q[i]

\* q back to front
Reverse(q) == [i \in 1..Len(q) |-> q[Len(q) + 1 - i]]

\* the last n elements of q, all of q when it is shorter
LastN(q, n) ==
    IF Len(q) <= n THEN q ELSE SubSeq(q, Len(q) - n + 1, Len(q))

\* a burst of notifications followed or interleaved with a few reads, on one
\* channel: the frames that make the dropdown overflow and then name a
\* notification that was evicted
NextEvict ==
    \/ DOMContentLoaded(FALSE)
    \/ \E s \in 1..Len(chan) : onopen(s)
    \/ \E s \in 1..Len(chan), frame \in Frames :
          /\ frame.type = "new_notification"
          /\ frame.notification # Undefined
          /\ Len(arrivals) < MaxArrivals
          /\ onmessage(s, frame)
    \/ \E s \in 1..Len(chan), frame \in Frames :
          /\ frame.type = "notification_read"
          /\ readsSince < MaxReads
          /\ onmessage(s, frame)

SpecEvict == Init /\ [][NextEvict]_vars

\* the whole client with its toasts: the channel lifecycle, inbound frames,
\* clicks on items, on "Mark all read" and on toasts, and toast timers
NextToast ==
    \/ Lifecycle(MaxToastSockets)
    \/ \E s \in 1..Len(chan), frame \in Frames :
          /\ nMsgs < MaxToastMsgs
          /\ onmessage(s, frame)
    \/ nClicks < MaxClicks /\ markAllAsRead
    \/ \E k \in 1..Len(dropdown) : nClicks < MaxClicks /\ ItemClick(k)
    \/ \E i \in 1..Len(toasts) : nClicks < MaxClicks /\ ToastClick(i)
    \/ \E i \in 1..Len(toasts) : ToastTimer(i)

SpecToast == Init /\ [][NextToast]_vars

\* some pending reconnect timer fires
TimerFires ==
    \E i \in 1..Len(timers), throws \in BOOLEAN :
       /\ throws \/ Len(chan) < MaxSockets
       /\ ReconnectTimer(i, throws)

\* the channel lifecycle with timers that fire: a setTimeout callback is run
\* by the event loop once its delay has passed
SpecLive ==
    /\ Init
    /\ [][NextConn]_vars
    /\ WF_vars(TimerFires)

\* one channel that stays open, its inbound frames, and the toasts: their
\* timers and the clicks on them
NextPopups ==
    \/ DOMContentLoaded(FALSE)
    \/ \E s \in 1..Len(chan) : onopen(s)
    \/ \E s \in 1..Len(chan), frame \in Frames :
          /\ nMsgs < MaxToastMsgs
          /\ onmessage(s, frame)
    \/ \E i \in 1..Len(toasts) : nClicks < MaxClicks /\ ToastClick(i)
    \/ \E i \in 1..Len(toasts) : ToastTimer(i)

\* a toast timer that was set fires: setTimeout callbacks are run by the
\* event loop once their delay has passed
SpecPopups ==
    /\ Init
    /\ [][NextPopups]_vars
    /\ WF_vars(\E i \in 1..Len(toasts) : ToastTimer(i))

\* the step is the error handler of some channel
ErrorStep ==
    \E s \in 1..Len(chan) : chan[s] # "FAILED" /\ chan'[s] = "FAILED"

\* the step is the close handler of some channel
CloseStep ==
    \E s \in 1..Len(chan) : chan[s] # "CLOSED" /\ chan'[s] = "CLOSED"

\* the step sets one more reconnect timer and uses up one attempt
Scheduled ==
    /\ Len(timers') = Len(timers) + 1
    /\ reconnectAttempts' = reconnectAttempts + 1

\* C1: in every state reached by page load, channel open / close / error
\* events, construction failures and reconnect timers, at most one channel
\* is connecting or open.
C1_AtMostOneLive == Cardinality(LiveSockets) <= 1

\* a retry after a failure produced a second channel, which is live
C1_Witness ==
    /\ Len(chan) >= 2
    /\ series # <<>>
    /\ Cardinality(LiveSockets) = 1

\* C2: a connectWebSocket call made while the current channel is open or
\* still connecting creates no channel and leaves the socket handle, the
\* connection flag, the attempt counter, the delay and the timers unchanged.
C2_ConnectWhileLiveIsNoOp ==
    [][(/\ nApi' = nApi + 1
        /\ socket # 0
        /\ readyState(socket) \in {"CONNECTING", "OPEN"})
       => UNCHANGED <<socket, chan, isConnected, reconnectAttempts,
                      reconnectDelay, timers>>]_vars

\* the delays of the backoff series: base * 2^(attempts - 1), attempts 1..5
BackoffDelays ==
    <<1 * BaseDelay, 2 * BaseDelay, 4 * BaseDelay, 8 * BaseDelay, 16 * BaseDelay>>

\* the smaller of two numbers
Min(a, b) == IF a <= b THEN a ELSE b

\* C3: as long as no channel has ever opened, the delays scheduled so far
\* are the first of 1, 2, 4, 8, 16 time units in that order, one for each
\* failed connect up to five, and nothing is scheduled after the fifth.
C3_BackoffFromFresh ==
    opens = 0 =>
        /\ IsPrefix(series, BackoffDelays)
        /\ Len(series) = reconnectAttempts
        /\ Len(series) >=
              Min(maxReconnectAttempts,
                  Cardinality({s \in 1..Len(chan) : chan[s] = "CLOSED"}))

\* all five delays were scheduled, the last retry failed and nothing is pending
C3_Witness ==
    /\ opens = 0
    /\ series = BackoffDelays
    /\ timers = <<>>
    /\ ActiveSockets = {}
    /\ Len(chan) >= 1

\* C4: every open sets the attempt counter to 0, the delay to its base value,
\* the connection flag and the status text to connected, and the first
\* reconnect scheduled after an open has the base delay, whatever the number
\* of failed attempts before that open.
C4_OpenResets ==
    /\ [][opens' = opens + 1 =>
            /\ reconnectAttempts' = 0
            /\ reconnectDelay' = BaseDelay
            /\ isConnected'
            /\ statusText' = "Connected"]_vars
    /\ [](opens > 0 /\ series # <<>> => series[1] = BaseDelay)

\* the first two channels failed, the third opened and then closed, and that
\* close scheduled the base delay
C4_Witness ==
    /\ opens = 1
    /\ Len(chan) = 3
    /\ \A s \in 1..3 : chan[s] = "CLOSED"
    /\ series = <<BaseDelay>>
    /\ timers = <<BaseDelay>>
    /\ reconnectAttempts = 1

\* the attempts are used up, nothing is pending and no channel is active
Exhausted ==
    /\ started
    /\ reconnectAttempts = maxReconnectAttempts
    /\ timers = <<>>
    /\ ActiveSockets = {}

\* C5: once the attempt counter is at the maximum and the connection has
\* failed or closed, no step creates a channel or sets a timer and the
\* connection flag stays false, whatever frames and clicks are delivered.
C5_ExhaustedIsTerminal ==
    [][Exhausted =>
          /\ Exhausted'
          /\ Len(chan') = Len(chan)
          /\ socket' = socket
          /\ ~isConnected'
          /\ reconnectAttempts' = reconnectAttempts]_vars

\* a click on a notification item was handled after the attempts ran out
C5_Witness ==
    /\ Exhausted
    /\ ~isConnected
    /\ lastEvent = "item_click"

\* C6 as stated: every close event and every error event sets the connection
\* flag to false and, below the maximum, schedules a reconnect.
C6_ErrorOrCloseSchedules ==
    [][ErrorStep \/ CloseStep =>
          /\ ~isConnected'
          /\ (reconnectAttempts < maxReconnectAttempts => Scheduled)]_vars

\* C6 amended: every close event and every error event sets the connection
\* flag to false and the status text to disconnected; a close event schedules
\* one reconnect below the maximum and none at the maximum; an error event
\* schedules nothing.
C6_CloseSchedulesErrorDoesNot ==
    [][/\ ErrorStep \/ CloseStep =>
            ~isConnected' /\ statusText' = "Disconnected"
       /\ CloseStep =>
            IF reconnectAttempts < maxReconnectAttempts
            THEN Scheduled
            ELSE UNCHANGED <<timers, reconnectAttempts>>
       /\ ErrorStep => UNCHANGED <<timers, reconnectAttempts>>]_vars

\* an error was handled, its close is still to come, and no retry is pending
C6_Witness ==
    /\ \E s \in 1..Len(chan) : chan[s] = "FAILED"
    /\ timers = <<>>
    /\ reconnectAttempts < maxReconnectAttempts
    /\ ~isConnected
    /\ statusText = "Disconnected"

\* C7: every new_notification frame raises UnreadCount by exactly 1, and with
\* no notification_read since the last notification_count frame UnreadCount
\* is that frame's count plus the number of new_notification frames since.
C7_CountPlusArrivals ==
    /\ [][newSince' = newSince + 1 =>
            notificationCount' = notificationCount + 1]_vars
    /\ [](readsSince = 0 => notificationCount = lastCount + newSince)

\* a count of 3 followed by two new_notification frames
C7_Witness ==
    /\ lastCount = 3
    /\ newSince = 2
    /\ readsSince = 0
    /\ notificationCount = 5

\* C8: a notification_count frame replaces UnreadCount by its count and
\* leaves the dropdown and the connection state unchanged.
C8_CountReplaces ==
    [][nMsgs' = nMsgs + 1 /\ lastEvent' = "notification_count" =>
          /\ notificationCount' = lastCount'
          /\ UNCHANGED <<dropdown, dropdownPresent, socket, chan, isConnected,
                         reconnectAttempts, reconnectDelay, timers,
                         statusText>>]_vars

\* a count of 0 replaced a count raised by an arrival that is still listed
C8_Witness ==
    /\ lastEvent = "notification_count"
    /\ lastCount = 0
    /\ notificationCount = 0
    /\ Len(RecentList) >= 1

\* C9: the dropdown never holds more than 10 notification items.
C9_ListBounded == Len(RecentList) <= DropdownLimit

\* more notifications arrived than the dropdown keeps
C9_Witness ==
    /\ Len(arrivals) > DropdownLimit
    /\ Len(RecentList) = DropdownLimit

\* C10: the dropdown lists the last 10 arrivals, the most recent first,
\* whatever their created_at values.
C10_MostRecentFirst ==
    dropdownPresent =>
        RecentList = Reverse(LastN(arrivals, DropdownLimit))

\* after an eviction the list starts with an arrival whose created_at is
\* earlier than that of the entry behind it
C10_Witness ==
    /\ Len(arrivals) > DropdownLimit
    /\ Len(RecentList) = DropdownLimit
    /\ RecentList[1].created_at < RecentList[2].created_at
    /\ arrivals[Len(arrivals)] = RecentList[1]
    /\ arrivals[1] # arrivals[Len(arrivals) - DropdownLimit + 1]

\* a step that handles a notification_read frame
ReadStep ==
    /\ nMsgs' = nMsgs + 1
    /\ lastEvent' = "notification_read"

\* C11: handling a notification_read frame lowers the unread count by one,
\* leaves a count of 0 at 0, and raises no error, whether or not the
\* dropdown holds an item with the frame's id.
C11_ReadDecrementsFloored ==
    [][ReadStep =>
          /\ notificationCount' =
                IF notificationCount > 0 THEN notificationCount - 1 ELSE 0
          /\ ~threw']_vars

\* a notification_read for an id that was never pushed, handled at count 0
C11_Witness ==
    /\ lastEvent = "notification_read"
    /\ lastId = "99"
    /\ ~threw
    /\ lastCount = 0 /\ newSince = 0 /\ readsSince >= 1
    /\ notificationCount = 0
    /\ \A i \in 1..Len(RecentList) : IdString(RecentList[i].id) # "99"

\* positions of the dropdown's items whose notification has the given id
ItemsWithId(id) ==
    {k \in 1..Len(dropdown) :
        dropdown[k].cls = "notification-item"
        /\ dropdown[k].notification.id = id}

\* the lowest position of a non-empty set of positions
FirstOf(S) == CHOOSE k \in S : \A j \in S : k <= j

\* C12: handling a notification_read frame for an id the dropdown lists
\* marks that item read (the first one when the id is listed more than
\* once); the dropdown keeps its entries, its length and its order, and no
\* other item's read state changes.
C12_ReadMarksEntryOnly ==
    [][ReadStep /\ ItemsWithId(lastId') # {} =>
          /\ dropdown' =
                [dropdown EXCEPT ![FirstOf(ItemsWithId(lastId'))].unread = FALSE]
          /\ arrivals' = arrivals]_vars

\* notification 'n1' was read while notification 7, listed before it,
\* stays unread
C12_Witness ==
    /\ lastEvent = "notification_read"
    /\ lastId = "'n1'"
    /\ Len(Items(dropdown)) = 2
    /\ Items(dropdown)[1].notification.id = "7"
    /\ Items(dropdown)[1].unread
    /\ Items(dropdown)[2].notification.id = "'n1'"
    /\ ~Items(dropdown)[2].unread

\* a step that handles a JSON frame whose type is none of the three the
\* switch of handleMessage knows; "" stands for a frame without a type field
UnknownTypeStep ==
    /\ nMsgs' = nMsgs + 1
    /\ lastEvent' \in {"", "pong"}

\* C13: a frame of an unknown type, or without a type, raises no error and
\* changes neither the unread count, the dropdown, the connection state nor
\* the reconnect counters.
C13_UnknownTypeIgnored ==
    [][UnknownTypeStep =>
          /\ ~threw'
          /\ UNCHANGED <<notificationCount, dropdown, title, badgeText,
                         badgeVisible>>
          /\ UNCHANGED <<socket, isConnected, reconnectAttempts,
                         reconnectDelay, chan, timers, statusText>>]_vars

\* a frame without a type field was handled while the count was above 0 and
\* the dropdown listed a notification
C13_Witness ==
    /\ nMsgs >= 1
    /\ lastEvent = ""
    /\ ~threw
    /\ notificationCount > 0
    /\ Len(RecentList) >= 1
    /\ isConnected

\* a step that is a click on a dropdown item, which calls markAsRead with
\* the item's notification id
ClickStep ==
    /\ nClicks' = nClicks + 1
    /\ lastEvent' = "item_click"

\* a step that is a click on "Mark all read"
MarkAllStep ==
    /\ nClicks' = nClicks + 1
    /\ lastEvent' = "mark_all"

\* the mark_read request for id on the current channel
MarkRead(id) ==
    [socket |-> socket, type |-> "mark_read", notification_id |-> id]

\* C14 as stated: markAsRead(id) sends exactly one mark_read request for id
\* when Connection is Connected, and sends and queues nothing otherwise,
\* so that no other step ever sends one.
C14_SendsWhenConnected ==
    [][/\ ClickStep =>
            outbox' = IF isConnected
                      THEN Append(outbox, MarkRead(lastId'))
                      ELSE outbox
       /\ ~(ClickStep \/ MarkAllStep) => outbox' = outbox]_vars

\* C14: markAsRead(id) sends exactly one mark_read request for id when the
\* current channel's readyState is OPEN, and sends and queues nothing
\* otherwise; no step other than a click ever sends a request, so a dropped
\* request is never sent later.
C14_SendsWhenOpen ==
    [][/\ ClickStep =>
            outbox' = IF socket # 0 /\ chan[socket] = "OPEN"
                      THEN Append(outbox, MarkRead(lastId'))
                      ELSE outbox
       /\ ~(ClickStep \/ MarkAllStep) => outbox' = outbox]_vars

\* the one click was made on an unread item while no channel was open, the
\* client has reconnected since, and nothing was sent
C14_Witness ==
    /\ nClicks = 1
    /\ lastEvent = "open"
    /\ opens = 2
    /\ isConnected
    /\ Len(Items(dropdown)) >= 1
    /\ \A k \in 1..Len(Items(dropdown)) : Items(dropdown)[k].unread
    /\ outbox = <<>>

\* the mark_read requests for the unread items of the dropdown, in document
\* order, each carrying the id of its item's notification
UnreadRequests ==
    LET unreadItems == SelectSeq(Items(dropdown), LAMBDA e : e.unread)
    IN [k \in 1..Len(unreadItems) |->
           MarkRead(unreadItems[k].notification.id)]

\* C15 as stated: on an open channel "Mark all read" sends exactly one
\* mark_read request per unread item and none for a read item, and each
\* request carries the id of its item's notification, whatever kind of
\* value that id is.
C15_MarkAllSendsEntryIds ==
    [][MarkAllStep /\ socket # 0 /\ chan[socket] = "OPEN" =>
          outbox' = outbox \o UnreadRequests]_vars

\* C16: on a page without a current user id the client never creates a
\* channel, never sets a reconnect timer, and every field and every piece of
\* UI it owns keeps its initial value.
C16_InertWithoutUser ==
    ~currentUserId =>
        /\ socket = 0 /\ chan = <<>>
        /\ timers = <<>> /\ series = <<>>
        /\ ~isConnected
        /\ reconnectAttempts = 0
        /\ reconnectDelay = BaseDelay
        /\ notificationCount = 0
        /\ statusText = ""
        /\ ~dropdownPresent /\ dropdown = <<>>
        /\ title = <<>> /\ badgeText = "" /\ ~badgeVisible
        /\ outbox = <<>>

\* the page without a user id has loaded and the constructor has run
C16_Witness ==
    /\ ~currentUserId
    /\ started
    /\ lastEvent = "init"

\* C17 as stated: a click on an unread item changes the unread count in the
\* same step, before any frame from the server.
C17_LocalReadAdjustsCount ==
    [][/\ ClickStep
       /\ \E k \in ItemsWithId(lastId') : dropdown[k].unread
       /\ notificationCount > 0
       => notificationCount' # notificationCount]_vars

\* C17: a local mark-as-read action, on one item or on all, changes neither
\* the unread count, the badge and title that show it, nor the dropdown; it
\* only sends.
C17_LocalReadOnlySends ==
    [][ClickStep \/ MarkAllStep =>
          UNCHANGED <<notificationCount, title, badgeText, badgeVisible,
                      dropdown>>]_vars

\* an unread item was clicked on an open channel: the request is out, the
\* count and the item are as before
C17_Witness ==
    /\ lastEvent = "item_click"
    /\ notificationCount = 1
    /\ badgeText = "1" /\ badgeVisible
    /\ Len(Items(dropdown)) = 1
    /\ Items(dropdown)[1].unread
    /\ Items(dropdown)[1].notification.id = lastId
    /\ Len(outbox) = 1

\* the step is a connectWebSocket call, made at page load or by a reconnect
\* timer, in which new WebSocket raised: no channel was created
ConstructFailStep ==
    /\ currentUserId
    /\ lastEvent' \in {"init", "timer"}
    /\ started' # started \/ timers' # timers
    /\ Len(chan') = Len(chan)
    /\ ~(socket # 0 /\ chan[socket] = "OPEN")

\* C18 as stated: a construction failure leaves the client as a close does:
\* not connected, the status indicator reading "Disconnected", and, below
\* the maximum, one more attempt used and a timer set with the next backoff
\* delay.
C18_ConstructFailLikeClose ==
    [][ConstructFailStep =>
          /\ ~isConnected'
          /\ statusText' = "Disconnected"
          /\ IF reconnectAttempts < maxReconnectAttempts
             THEN /\ reconnectAttempts' = reconnectAttempts + 1
                  /\ series' = Append(series,
                                  BaseDelay * Pow2(reconnectAttempts))
                  /\ Len(timers') = Len(timers) +
                                       (IF lastEvent' = "init" THEN 1 ELSE 0)
             ELSE UNCHANGED <<reconnectAttempts, series>>]_vars

\* C19 as stated: whenever the attempts are used up and nothing is
\* connected or pending, the status indicator reads "Disconnected".
C19_ExhaustedShowsDisconnected ==
    Exhausted => statusText = "Disconnected"

\* the title carries one "(N) " prefix, N the unread count, when the count
\* is above 0, and none when it is 0
TitleShowsCount ==
    title = IF notificationCount > 0 THEN <<notificationCount>> ELSE <<>>

\* C20 as stated: the title carries exactly one prefix with the unread
\* count, or none at count 0, and the badge of the bell is visible and
\* reads the count when the count is above 0 and is hidden at 0.
C20_TitleAndBadgeShowCount ==
    /\ TitleShowsCount
    /\ dropdownPresent =>
          IF notificationCount > 0
          THEN badgeVisible /\ badgeText = ToString(notificationCount)
          ELSE ~badgeVisible

\* C20: the title carries exactly one prefix with the unread count, or none
\* at count 0; the badge of the bell is hidden at 0 and visible above 0,
\* where it reads the count up to 99 and "99+" beyond.
C20_TitleExactBadgeCapped ==
    /\ TitleShowsCount
    /\ dropdownPresent =>
          IF notificationCount > 0
          THEN /\ badgeVisible
               /\ badgeText = IF notificationCount > 99
                              THEN "99+"
                              ELSE ToString(notificationCount)
          ELSE ~badgeVisible

\* count 3, then a new notification, then a notification read: the badge
\* and the title show 3 again
C20_Witness ==
    /\ lastEvent = "notification_read"
    /\ lastCount = 3 /\ newSince = 1 /\ readsSince = 1
    /\ notificationCount = 3
    /\ dropdownPresent
    /\ badgeVisible /\ badgeText = "3"
    /\ title = <<3>>

\* a step that handles a new_notification frame
NewStep ==
    /\ nMsgs' = nMsgs + 1
    /\ lastEvent' = "new_notification"

\* the notification with this id arrived and the dropdown no longer lists it
Evicted(id) ==
    /\ dropdownPresent
    /\ \E i \in 1..Len(arrivals) : arrivals[i].id = id
    /\ ItemsWithId(id) = {}

\* C21: a new_notification handled while the dropdown is full raises the
\* unread count by one although an item is evicted, and a notification_read
\* for an evicted id lowers a count above 0 by one.
C21_EvictionKeepsCount ==
    [][/\ NewStep /\ Len(RecentList) = DropdownLimit =>
             /\ notificationCount' = notificationCount + 1
             /\ Len(RecentList') = DropdownLimit
       /\ ReadStep /\ Evicted(lastId') /\ notificationCount > 0 =>
             notificationCount' = notificationCount - 1]_vars

\* eleven notifications arrived, the first was evicted, and a
\* notification_read for it brought the count from 11 to 10
C21_Witness ==
    /\ lastEvent = "notification_read"
    /\ Len(arrivals) = DropdownLimit + 1
    /\ lastId = arrivals[1].id
    /\ Evicted(lastId)
    /\ Len(RecentList) = DropdownLimit
    /\ readsSince = 1
    /\ notificationCount = DropdownLimit

\* the step is the open handler of some channel
OpenStep ==
    \E s \in 1..Len(chan) : chan[s] = "CONNECTING" /\ chan'[s] = "OPEN"

\* the step handles an inbound frame, a click (markAsRead, markAllAsRead, a
\* toast click) or a toast timer
NoteStep ==
    \/ nMsgs' = nMsgs + 1
    \/ nClicks' = nClicks + 1
    \/ lastEvent' = "toast_timer" /\ toasts' # toasts

\* C22: the connection flag changes only in the open, close and error
\* handlers of a channel; handling an inbound frame, markAsRead,
\* markAllAsRead, a toast click and a toast timer leave the flag, the attempt
\* counter and the reconnect delay as they are.
C22_OnlyLifecycleChangesConnection ==
    [][/\ isConnected' # isConnected => OpenStep \/ ErrorStep \/ CloseStep
       /\ NoteStep => UNCHANGED <<isConnected, reconnectAttempts,
                                  reconnectDelay>>]_vars

\* a toast timer fired between two reconnect attempts
C22_Witness ==
    /\ lastEvent = "toast_timer"
    /\ ~isConnected
    /\ reconnectAttempts = 2
    /\ timers # <<>>
    /\ nMsgs >= 1
    /\ nClicks >= 1

\* a close handler has just scheduled a reconnect: the attempt counter was
\* below the maximum when the channel closed
ClosedBelowMax ==
    /\ lastEvent = "close"
    /\ timers # <<>>

\* a reconnect timer has just run connectWebSocket: it created a channel, or
\* its catch block scheduled the next attempt or found the attempts used up
ConnectAttempted ==
    /\ lastEvent = "timer"
    /\ \/ socket # 0 /\ chan[socket] = "CONNECTING"
       \/ timers # <<>>
       \/ reconnectAttempts = maxReconnectAttempts

\* C23: with timers that fire, a close handled while the attempt counter is
\* below 5 is followed by a connect attempt, and a channel that opens leaves
\* the client connected with the attempt counter at 0.
C23_CloseLeadsToAttempt ==
    /\ ClosedBelowMax ~> ConnectAttempted
    /\ [][OpenStep => isConnected' /\ reconnectAttempts' = 0]_vars

\* the channel created by a reconnect timer after a close has opened
C23_Witness ==
    /\ lastEvent = "open"
    /\ opens = 2
    /\ Len(chan) = 2
    /\ socket = 2
    /\ isConnected
    /\ reconnectAttempts = 0

\* C24: on a page without the dropdown menu a new_notification that carries
\* a notification raises the unread count by one and a notification_read
\* lowers it by one, floored at 0; neither raises an error and there is
\* still no list.
C24_NoDropdownStillCounts ==
    [][~dropdownPresent =>
          /\ NewStep /\ Len(arrivals') > Len(arrivals) =>
                /\ notificationCount' = notificationCount + 1
                /\ ~threw'
                /\ dropdown' = <<>>
          /\ ReadStep =>
                /\ notificationCount' =
                      IF notificationCount > 0
                      THEN notificationCount - 1 ELSE 0
                /\ ~threw'
                /\ dropdown' = <<>>]_vars

\* without a dropdown, two notifications and then a notification_read were
\* handled: the count is 1 and nothing is listed
C24_Witness ==
    /\ currentUserId /\ ~hasNav
    /\ ~dropdownPresent /\ dropdown = <<>>
    /\ lastEvent = "notification_read"
    /\ lastCount = 0 /\ newSince = 2 /\ readsSince = 1
    /\ Len(arrivals) = 2
    /\ notificationCount = 1
    /\ ~threw

\* the step is the timer callback of some toast
ToastTimerStep ==
    \E i \in 1..Len(toasts) : toasts[i].timer /\ ~toasts'[i].timer

\* the i-th toast exists and is on the page
ToastShown(i) == i <= Len(toasts) /\ toasts[i].shown

\* C25: a new_notification that carries a notification adds exactly one
\* toast, on the page; a toast leaves the page only by its timer or by a
\* click, and with timers that fire every toast does leave it; a timer that
\* fires after a click removed its toast changes nothing else; and a toast
\* timer changes neither the unread count, the dropdown nor the connection
\* and reconnect state.
C25_ToastsComeAndGo ==
    /\ [][NewStep /\ Len(arrivals') > Len(arrivals) =>
             /\ Len(toasts') = Len(toasts) + 1
             /\ toasts'[Len(toasts')].shown
             /\ SubSeq(toasts', 1, Len(toasts)) = toasts]_vars
    /\ [][Len(toasts') # Len(toasts) =>
             NewStep /\ Len(arrivals') > Len(arrivals)]_vars
    /\ [][\A i \in 1..Len(toasts) :
             toasts[i].shown /\ ~toasts'[i].shown =>
                lastEvent' \in {"toast_timer", "toast_click"}]_vars
    /\ [][ToastTimerStep =>
             /\ \A i \in 1..Len(toasts) : ~toasts[i].shown => ~toasts'[i].shown
             /\ UNCHANGED <<notificationCount, dropdown, title, badgeText,
                            badgeVisible, outbox, connVars>>]_vars
    /\ \A i \in 1..MaxToastMsgs : ToastShown(i) ~> ~ToastShown(i)

\* the timer of a toast fired after a click had removed the toast, while
\* another toast is still on the page
C25_Witness ==
    /\ lastEvent = "toast_timer"
    /\ nClicks = 1
    /\ Len(toasts) = 2
    /\ toasts[1] = [shown |-> FALSE, timer |-> FALSE]
    /\ toasts[2] = [shown |-> TRUE, timer |-> TRUE]
    /\ notificationCount = 2

\* the longest delay of the backoff series: 16 time units
MaxDelay == BaseDelay * Pow2(maxReconnectAttempts - 1)

\* C26: the attempt counter is always between 0 and 5, the base delay is
\* always its initial value, and no delay scheduled or pending exceeds 16
\* time units.
C26_CounterAndDelayBounded ==
    /\ reconnectAttempts \in 0..maxReconnectAttempts
    /\ reconnectDelay = BaseDelay
    /\ \A i \in 1..Len(timers) : timers[i] <= MaxDelay
    /\ \A i \in 1..Len(series) : series[i] <= MaxDelay

\* the fifth attempt is scheduled, with the longest delay, in a second
\* series of reconnects
C26_Witness ==
    /\ opens >= 1
    /\ reconnectAttempts = maxReconnectAttempts
    /\ timers = <<MaxDelay>>
    /\ series[Len(series)] = MaxDelay

\* C27: at most one reconnect timer is pending, none is pending while a
\* channel is connecting or open, and a failure that fires an error event
\* and then a close event sets one timer and uses one attempt: the error
\* handler sets none, the close handler at most one.
C27_OneTimerNoneWhileLive ==
    /\ [](Len(timers) <= 1)
    /\ [](timers # <<>> => LiveSockets = {})
    /\ [][ErrorStep => UNCHANGED <<timers, reconnectAttempts>>]_vars
    /\ [][CloseStep =>
             IF reconnectAttempts < maxReconnectAttempts
             THEN /\ timers' = <<BaseDelay * Pow2(reconnectAttempts)>>
                  /\ reconnectAttempts' = reconnectAttempts + 1
             ELSE UNCHANGED <<timers, reconnectAttempts>>]_vars

\* an open channel failed: its error event and then its close event were
\* handled, and one timer is pending for one attempt used
C27_Witness ==
    /\ lastEvent = "close"
    /\ opens = 1
    /\ Len(chan) = 1
    /\ chan[1] = "CLOSED"
    /\ statusText = "Disconnected"
    /\ reconnectAttempts = 1
    /\ timers = <<BaseDelay>>

\* C28 as stated: the connection flag is true exactly when the current
\* socket's readyState is OPEN, the test markAsRead makes.
C28_FlagIffOpen ==
    isConnected <=> (socket # 0 /\ readyState(socket) = "OPEN")

\* C28: while the current socket is open the flag is true and the status
\* indicator reads "Connected"; while the flag is true the current socket is
\* open or closing, closing meaning that the closing handshake has started
\* and the close event is still to come.
C28_FlagOpenOrClosing ==
    /\ socket # 0 /\ readyState(socket) = "OPEN" =>
          isConnected /\ statusText = "Connected"
    /\ isConnected =>
          /\ socket # 0
          /\ readyState(socket) \in {"OPEN", "CLOSING"}
          /\ statusText = "Connected"

\* an item was clicked while the channel was closing: the indicator reads
\* "Connected" and the request was not sent
C28_Witness ==
    /\ lastEvent = "item_click"
    /\ isConnected
    /\ statusText = "Connected"
    /\ readyState(socket) = "CLOSING"
    /\ outbox = <<>>

\* a step that handles a frame that is not JSON
NotJsonStep ==
    /\ nMsgs' = nMsgs + 1
    /\ lastEvent' = "not_json"

\* C29: a frame that is not JSON changes neither the unread count, the
\* dropdown, the badge and title, the connection flag, the reconnect
\* counters and timers nor the channel, which stays open; and a
\* new_notification delivered right after it is handled as usual.
C29_BadFrameChangesNothing ==
    /\ [][NotJsonStep =>
             /\ UNCHANGED <<noteVars, connVars, outbox, dropdownPresent>>
             /\ \E s \in 1..Len(chan) : chan'[s] = "OPEN"]_vars
    /\ [][lastEvent = "not_json" /\ NewStep
             /\ Len(arrivals') > Len(arrivals) =>
                /\ notificationCount' = notificationCount + 1
                /\ Len(toasts') = Len(toasts) + 1
                /\ ~threw']_vars

\* a frame that is not JSON was handled on an open channel while the count
\* was above 0 and the dropdown listed a notification
C29_Witness ==
    /\ lastEvent = "not_json"
    /\ threw
    /\ isConnected
    /\ readyState(socket) = "OPEN"
    /\ notificationCount > 0
    /\ Len(RecentList) >= 1
    /\ timers = <<>>

\* C30 as stated: with the dropdown present, handling a new_notification
\* either raises the unread count by one and puts the notification at the
\* head of the dropdown, or changes neither.
C30_NewNotificationAllOrNothing ==
    [][dropdownPresent /\ NewStep =>
          \/ /\ notificationCount' = notificationCount + 1
             /\ Len(arrivals') = Len(arrivals) + 1
             /\ RecentList' # <<>>
             /\ RecentList'[1] = arrivals'[Len(arrivals')]
          \/ UNCHANGED <<notificationCount, dropdown>>]_vars

\* the number of dropdown items still marked unread
UnreadEntries ==
    Cardinality({k \in 1..Len(dropdown) :
                    dropdown[k].cls = "notification-item"
                    /\ dropdown[k].unread})

\* the same number after the step
UnreadEntriesAfter ==
    Cardinality({k \in 1..Len(dropdown') :
                    dropdown'[k].cls = "notification-item"
                    /\ dropdown'[k].unread})

\* C31 as stated: the unread count is never smaller than the number of
\* dropdown items still marked unread.
C31_CountCoversUnreadEntries ==
    notificationCount >= UnreadEntries

\* C31: the unread count is never negative, and a count that is not
\* smaller than the number of unread items stays so when a new_notification
\* is handled and when a notification_read is handled whose id selects an
\* item that is still unread.
C31_CountCoverPreserved ==
    /\ [](notificationCount >= 0)
    /\ [][/\ notificationCount >= UnreadEntries
          /\ \/ NewStep
             \/ /\ ReadStep
                /\ ItemsWithId(lastId') # {}
                /\ dropdown[FirstOf(ItemsWithId(lastId'))].unread
          => notificationCount' >= UnreadEntriesAfter]_vars

\* two notifications arrived and the one with id 7 was read: one item is
\* still unread and the count is 1
C31_Witness ==
    /\ lastEvent = "notification_read"
    /\ lastId = "7"
    /\ lastCount = 0 /\ newSince = 2 /\ readsSince = 1
    /\ Len(Items(dropdown)) = 2
    /\ UnreadEntries = 1
    /\ notificationCount = 1

====
